---- MODULE Spec2Model ----
(***************************************************************************)
(* Model of the partner-treemap dashboard: the App component (data load,   *)
(* city normalisation, field derivation, filter state and filter effect),  *)
(* the Sidebar's derived filter domains, and the TreeMapChart component    *)
(* (chartData, colour shade, label density, tooltip placement).            *)
(*                                                                         *)
(* JavaScript strings are sequences of UTF-16 code units; a code unit is   *)
(* written here as a one-token string ("a", "I", ...).  The three non-     *)
(* ASCII units the code is sensitive to are named:                         *)
(*    "I_dot"  = U+0130 (capital I with dot above)                         *)
(*    "i_nodot"= U+0131 (small dotless i)                                  *)
(*    "c_dot"  = U+0307 (combining dot above)                              *)
(*    "u_uml"  = U+00FC (small u with diaeresis)                           *)
(* null / undefined is the one-element sequence Null, which is no string.  *)
(***************************************************************************)
EXTENDS Integers, Sequences, FiniteSets, TLC

VARIABLES
    \* ---- App component state (part_000, lines 20-35) ----
    phase,             \* "constructed" | "pending" | "ok" | "failed": the fetch
    fetchCount,        \* number of fetch() calls issued so far
    partners,
    filteredPartners,
    loading,
    searchQuery,
    filters,
    areaMetric,
    effectPending,     \* the filter effect is scheduled (a dependency changed)
    \* ---- TreeMapChart component state (part_001, lines 129-131) ----
    tooltipData,
    tooltipPos,
    viewport,          \* [w, h]: window.innerWidth / innerHeight
    \* ---- inputs and results of the pure functions ----
    rawPartner,        \* a raw record handed to the loader's map callback
    enhanced,          \* the record the callback returned for rawPartner
    box,               \* props handed to CustomizedContent
    content            \* what CustomizedContent rendered for box

appVars  == <<phase, fetchCount, partners, filteredPartners, loading,
              searchQuery, filters, areaMetric, effectPending, tooltipData>>
ptrVars  == <<tooltipPos, viewport>>
loadVars == <<rawPartner, enhanced>>
boxVars  == <<box, content>>
vars     == <<appVars, ptrVars, loadVars, boxVars>>

----------------------------------------------------------------------------
(* JavaScript values *)

Null == <<"NULL">>

\* The IEEE NaN a failed parseInt returns; no integer the model computes with.
NaN == -1000000

IsNaN(n) == n = NaN

\* n1 <= n2 on JavaScript numbers: false as soon as one side is NaN.
NumLeq(a, b) == ~IsNaN(a) /\ ~IsNaN(b) /\ a <= b

\* Math.max over a sequence of numbers and one more number: NaN is contagious.
RECURSIVE SeqMax(_, _)
SeqMax(s, acc) ==
    IF s = <<>> THEN acc
    ELSE IF IsNaN(Head(s)) \/ IsNaN(acc) THEN NaN
    ELSE SeqMax(Tail(s), IF Head(s) > acc THEN Head(s) ELSE acc)

MathMax(s, last) == SeqMax(s, last)

----------------------------------------------------------------------------
(* Strings *)

IsString(s) == s # Null

Whitespace == {" ", "\t"}

Digits == {"0", "1", "2", "3", "4", "5", "6", "7", "8", "9"}

DigitVal(c) ==
    CASE c = "0" -> 0 [] c = "1" -> 1 [] c = "2" -> 2 [] c = "3" -> 3
      [] c = "4" -> 4 [] c = "5" -> 5 [] c = "6" -> 6 [] c = "7" -> 7
      [] c = "8" -> 8 [] c = "9" -> 9

\* UTF-16 code unit of a character of the model's alphabet.
CharCode(c) ==
    CASE c = "\t" -> 9    [] c = " " -> 32   [] c = "%" -> 37   [] c = "+" -> 43
      [] c = "-" -> 45    [] c = "/" -> 47
      [] c \in Digits -> 48 + DigitVal(c)
      [] c = "A" -> 65    [] c = "B" -> 66   [] c = "I" -> 73   [] c = "K" -> 75
      [] c = "L" -> 76    [] c = "N" -> 78   [] c = "R" -> 82   [] c = "S" -> 83
      [] c = "T" -> 84    [] c = "U" -> 85
      [] c = "a" -> 97    [] c = "b" -> 98   [] c = "e" -> 101  [] c = "i" -> 105
      [] c = "k" -> 107   [] c = "l" -> 108  [] c = "n" -> 110  [] c = "r" -> 114
      [] c = "s" -> 115   [] c = "t" -> 116  [] c = "u" -> 117  [] c = "x" -> 120
      [] c = "y" -> 121
      [] c = "u_uml" -> 252
      [] c = "I_dot" -> 304
      [] c = "i_nodot" -> 305
      [] c = "c_dot" -> 775
      [] c = "..." -> 8230

\* String.prototype.toLowerCase on one code unit (locale-independent Unicode
\* mapping): U+0130 lowers to "i" followed by U+0307, U+0131 is already lower.
LowerChar(c) ==
    CASE c = "A" -> <<"a">> [] c = "B" -> <<"b">> [] c = "I" -> <<"i">>
      [] c = "K" -> <<"k">> [] c = "L" -> <<"l">> [] c = "N" -> <<"n">>
      [] c = "R" -> <<"r">> [] c = "S" -> <<"s">> [] c = "T" -> <<"t">>
      [] c = "U" -> <<"u">>
      [] c = "I_dot" -> <<"i", "c_dot">>
      [] OTHER -> <<c>>

RECURSIVE toLowerCase(_)
toLowerCase(s) ==
    IF s = <<>> THEN <<>> ELSE LowerChar(Head(s)) \o toLowerCase(Tail(s))

RECURSIVE TrimStart(_)
TrimStart(s) ==
    IF s # <<>> /\ Head(s) \in Whitespace THEN TrimStart(Tail(s)) ELSE s

RECURSIVE TrimEnd(_)
TrimEnd(s) ==
    IF s # <<>> /\ s[Len(s)] \in Whitespace
    THEN TrimEnd(SubSeq(s, 1, Len(s) - 1)) ELSE s

\* String.prototype.trim
trim(s) == TrimEnd(TrimStart(s))

\* String.prototype.includes
includes(s, q) ==
    \E i \in 1..(Len(s) - Len(q) + 1) : SubSeq(s, i, i + Len(q) - 1) = q

\* The order Array.prototype.sort uses without a comparator: by code units.
RECURSIVE StrLess(_, _)
StrLess(a, b) ==
    IF b = <<>> THEN FALSE
    ELSE IF a = <<>> THEN TRUE
    ELSE IF CharCode(Head(a)) # CharCode(Head(b))
         THEN CharCode(Head(a)) < CharCode(Head(b))
    ELSE StrLess(Tail(a), Tail(b))

\* Array membership (Array.prototype.includes)
InSeq(x, s) == \E i \in 1..Len(s) : s[i] = x

----------------------------------------------------------------------------
(* normalizeCity, part_000 lines 9-17 *)

IstanbulLower == <<"i", "s", "t", "a", "n", "b", "u", "l">>
IstanbulName  == <<"I_dot", "s", "t", "a", "n", "b", "u", "l">>

normalizeCity(city) ==
    IF city = Null \/ city = <<>> THEN Null
    ELSE LET normalized == trim(city)
         IN  IF toLowerCase(normalized) = IstanbulLower \/ normalized = IstanbulName
             THEN IstanbulName
             ELSE normalized

----------------------------------------------------------------------------
(* Number parsing used by the loader, part_000 lines 46-51 *)

RECURSIVE DigitRunLen(_)
\* length of the run of digits s starts with
DigitRunLen(s) ==
    IF s # <<>> /\ Head(s) \in Digits THEN 1 + DigitRunLen(Tail(s)) ELSE 0

RECURSIVE DecimalValue(_, _)
DecimalValue(s, acc) ==
    IF s = <<>> THEN acc ELSE DecimalValue(Tail(s), 10 * acc + DigitVal(Head(s)))

\* parseInt(str) on a string, radix 10: leading white space is skipped, one
\* sign is read, then the digits up to the first non-digit; NaN without digits.
parseIntStr(str) ==
    LET t    == TrimStart(str)
        neg  == t # <<>> /\ Head(t) = "-"
        body == IF t # <<>> /\ Head(t) \in {"-", "+"} THEN Tail(t) ELSE t
        n    == DigitRunLen(body)
    IN  IF n = 0 THEN NaN
        ELSE IF neg THEN 0 - DecimalValue(SubSeq(body, 1, n), 0)
        ELSE DecimalValue(SubSeq(body, 1, n), 0)

\* parseInt(v): undefined and null are first turned into the strings
\* "undefined" and "null", which hold no digit.
parseInt(v) == IF v = Null THEN NaN ELSE parseIntStr(v)

RECURSIVE FirstDigitRun(_)
\* str.match(/\d+/)?.[0]: the first maximal run of digits, Null without one
FirstDigitRun(s) ==
    IF s = <<>> THEN Null
    ELSE IF Head(s) \in Digits THEN SubSeq(s, 1, DigitRunLen(s))
    ELSE FirstDigitRun(Tail(s))

\* v?.match(/\d+/)?.[0]
matchDigits(v) == IF v = Null THEN Null ELSE FirstDigitRun(v)

\* JavaScript truthiness of a string-or-undefined value
Truthy(v) == v # Null /\ v # <<>>

\* a || b on string-or-undefined values
OrElse(a, b) == IF Truthy(a) THEN a ELSE b

Zero == <<"0">>

\* parseInt(p.district) || 0: NaN and 0 are falsy
districtOf(v) == LET n == parseInt(v) IN IF IsNaN(n) \/ n = 0 THEN 0 ELSE n

Turkiye == <<"T", "u_uml", "r", "k", "i", "y", "e">>

\* record b laid over record a: { ...a, k: b[k] }
Spread(a, b) ==
    [k \in (DOMAIN a) \cup (DOMAIN b) |-> IF k \in DOMAIN b THEN b[k] ELSE a[k]]

\* The callback of data.partners.map, part_000 lines 42-53
enhancePartner(p) ==
    LET rawCity == IF p.city = Turkiye THEN p.country ELSE p.city
    IN  Spread(p,
          [ average_users |-> parseInt(OrElse(matchDigits(p.average_project_size), Zero)),
            large_users   |-> parseInt(OrElse(matchDigits(p.large_project_size), Zero)),
            references    |-> parseInt(OrElse(p.references_count, Zero)),
            experts       |-> parseInt(OrElse(p.certified_experts_count, Zero)),
            displayCity   |-> normalizeCity(rawCity),
            districtValue |-> districtOf(p.district) ])

RECURSIVE MapEnhance(_)
MapEnhance(raw) ==
    IF raw = <<>> THEN <<>> ELSE <<enhancePartner(Head(raw))>> \o MapEnhance(Tail(raw))


----------------------------------------------------------------------------
(* App: initial state and derived filter domains *)

DefaultMaxReferences == 100

\* useState initial value of filters, part_000 lines 27-32
InitialFilters ==
    [ levels         |-> <<"Gold", "Silver", "Ready">>,
      minReferences  |-> 0,
      maxReferences  |-> DefaultMaxReferences,
      selectedCities |-> <<>> ]

RECURSIVE FieldOf(_, _)
\* list.map(p => p[k])
FieldOf(list, k) ==
    IF list = <<>> THEN <<>> ELSE <<Head(list)[k]>> \o FieldOf(Tail(list), k)

RECURSIVE SortStrings(_)
\* the strings of S in the order of Array.prototype.sort()
SortStrings(S) ==
    IF S = {} THEN <<>>
    ELSE LET m == CHOOSE x \in S : \A y \in S \ {x} : StrLess(x, y)
         IN  <<m>> \o SortStrings(S \ {m})

\* Math.max(...list.map(p => p.references), 100), part_000 line 59
maxRefsOf(list) == MathMax(FieldOf(list, "references"), DefaultMaxReferences)

\* [...new Set(list.map(p => p.displayCity))].filter(Boolean).sort(), line 60
uniqueCitiesOf(list) ==
    SortStrings({ c \in { list[i].displayCity : i \in 1..Len(list) } : Truthy(c) })

\* Sidebar's own useMemo values, Header.jsx lines 51-57
SidebarMaxReferences(list) ==
    MathMax(FieldOf(list, "references"), DefaultMaxReferences)

SidebarUniqueCities(list) ==
    SortStrings({ c \in { list[i].displayCity : i \in 1..Len(list) } : Truthy(c) })

----------------------------------------------------------------------------
(* App: the filter effect, part_000 lines 75-102 *)

\* lines 79-85
SearchStage(result, q) ==
    IF Truthy(q)
    THEN LET query == toLowerCase(q)
             Keep(p) == \/ includes(toLowerCase(p.name), query)
                        \/ /\ p.displayCity # Null
                           /\ includes(toLowerCase(p.displayCity), query)
         IN  SelectSeq(result, Keep)
    ELSE result

\* lines 88-90 without the length test: an empty selection keeps nothing
LevelStageAlways(result, f) ==
    LET Keep(p) == InSeq(p.level, f.levels) IN SelectSeq(result, Keep)

\* lines 88-90
LevelStage(result, f) ==
    IF Len(f.levels) > 0
    THEN LET Keep(p) == InSeq(p.level, f.levels) IN SelectSeq(result, Keep)
    ELSE result

\* lines 93-96 with the bounds taken as exclusive
ReferencesStageExclusive(result, f) ==
    LET Keep(p) == /\ NumLeq(f.minReferences, p.references)
                   /\ f.minReferences # p.references
                   /\ NumLeq(p.references, f.maxReferences)
                   /\ f.maxReferences # p.references
    IN  SelectSeq(result, Keep)

\* lines 93-96
ReferencesStage(result, f) ==
    LET Keep(p) == /\ NumLeq(f.minReferences, p.references)
                   /\ NumLeq(p.references, f.maxReferences)
    IN  SelectSeq(result, Keep)

\* line 99 guarded like the level filter: an empty selection filters nothing
CityStageSkippedWhenEmpty(result, f) ==
    IF Len(f.selectedCities) > 0
    THEN LET Keep(p) == InSeq(p.displayCity, f.selectedCities)
         IN  SelectSeq(result, Keep)
    ELSE result

\* line 99
CityStage(result, f) ==
    LET Keep(p) == InSeq(p.displayCity, f.selectedCities)
    IN  SelectSeq(result, Keep)

\* the effect with its last stage filtering partners instead of result
applyFiltersCityOnPartners(list, q, f) == CityStage(list, f)

applyFilters(list, q, f) ==
    CityStage(ReferencesStage(LevelStage(SearchStage(list, q), f), f), f)


----------------------------------------------------------------------------
(* TreeMapChart: colour, sizes and order, part_001 lines 6-18 and 133-194 *)

\* COLORS, lines 6-10; an unknown level falls back to COLORS.Ready (line 14)
BaseColor(level) ==
    CASE level = "Gold"   -> [h |-> 28,  s |-> 80, l |-> 52]
      [] level = "Silver" -> [h |-> 204, s |-> 70, l |-> 53]
      [] OTHER            -> [h |-> 145, s |-> 63, l |-> 42]

ShadeSpan == 12

\* Math.max(a, b) and Math.min(a, b) on two numbers
Max2(a, b) == IF IsNaN(a) \/ IsNaN(b) THEN NaN ELSE IF a > b THEN a ELSE b
Min2(a, b) == IF IsNaN(a) \/ IsNaN(b) THEN NaN ELSE IF a < b THEN a ELSE b

\* getColorWithShade, lines 13-18.  The lightness base.l + (1 - ratio) * 12,
\* ratio = min(value / max(maxValue, 1), 1), is the exact fraction lnum / lden
\* with lden = max(maxValue, 1); lnum = NaN when the lightness is NaN.
getColorWithShade(level, value, maxValue) ==
    LET base == BaseColor(level)
        den  == Max2(maxValue, 1)
        part == Min2(value, den)      \* ratio * den
    IN  [ h    |-> base.h,
          s    |-> base.s,
          lnum |-> IF IsNaN(den) \/ IsNaN(part) THEN NaN
                   ELSE base.l * den + (den - part) * ShadeSpan,
          lden |-> IF IsNaN(den) THEN 1 ELSE den ]

\* maxMetric, lines 134-136
maxMetricOf(list) == MathMax(FieldOf(list, "references"), 1)

\* the map callback of chartData, lines 169-192; index counts from 0
chartEntry(p, index, metric, maxMetric) ==
    [ name          |-> p.name,
      size          |-> IF metric = "district"
                        THEN Max2(p.districtValue, 1)
                        ELSE Max2(p.references, 1),
      level         |-> p.level,
      references    |-> p.references,
      average_users |-> p.average_users,
      districtValue |-> p.districtValue,
      large_users   |-> p.large_users,
      experts       |-> p.experts,
      displayCity   |-> p.displayCity,
      profile_url   |-> p.profile_url,
      index         |-> index,
      maxMetric     |-> maxMetric ]

\* (a, b) => b.size - a.size; a NaN result counts as 0 in Array.prototype.sort
compareBySize(a, b) ==
    IF IsNaN(a.size) \/ IsNaN(b.size) THEN 0 ELSE b.size - a.size

RECURSIVE InsertSorted(_, _)
\* entry e put behind every entry of the sorted list that does not sort after it
InsertSorted(sorted, e) ==
    IF sorted = <<>> THEN <<e>>
    ELSE IF compareBySize(Head(sorted), e) <= 0
         THEN <<Head(sorted)>> \o InsertSorted(Tail(sorted), e)
         ELSE <<e>> \o sorted

RECURSIVE SortBySize(_, _)
\* the stable Array.prototype.sort with compareBySize, line 193
SortBySize(list, acc) ==
    IF list = <<>> THEN acc ELSE SortBySize(Tail(list), InsertSorted(acc, Head(list)))

\* chartData, lines 165-194
chartDataOf(list, metric) ==
    IF Len(list) = 0 THEN <<>>
    ELSE SortBySize(
           [ i \in 1..Len(list) |-> chartEntry(list[i], i - 1, metric, maxMetricOf(list)) ],
           <<>>)

\* the fill CustomizedContent gives the box of a chart entry, line 35
boxFill(entry) == getColorWithShade(entry.level, entry.references, entry.maxMetric)

\* what TreeMapChart returns, lines 206-229
chartView(list) == IF Len(list) = 0 THEN "empty" ELSE "treemap"

\* what App returns, part_000 lines 126-195
appView == IF loading THEN "loading" ELSE chartView(filteredPartners)


----------------------------------------------------------------------------
(* CustomizedContent, part_001 lines 21-126 *)

gutter == 4

\* getFontSize, lines 42-47
getFontSize(rw, rh) ==
    IF rw > 150 /\ rh > 60 THEN 13
    ELSE IF rw > 100 /\ rh > 45 THEN 11
    ELSE IF rw > 60 /\ rh > 30 THEN 9
    ELSE 8

\* getMaxChars, lines 50-56
getMaxChars(rw) ==
    IF rw > 180 THEN 28
    ELSE IF rw > 140 THEN 22
    ELSE IF rw > 100 THEN 16
    ELSE IF rw > 70 THEN 12
    ELSE 8

\* truncateName cutting at maxLen instead of maxLen - 1
truncateNameAtLimit(str, maxLen) ==
    IF ~Truthy(str) THEN <<>>
    ELSE IF Len(str) > maxLen THEN SubSeq(str, 1, maxLen) \o <<"...">>
    ELSE str

\* truncateName, lines 58-61; "..." is the one code unit U+2026
truncateName(str, maxLen) ==
    IF ~Truthy(str) THEN <<>>
    ELSE IF Len(str) > maxLen THEN SubSeq(str, 1, maxLen - 1) \o <<"...">>
    ELSE str

NoStat == [shown |-> FALSE, prefix |-> "", value |-> 0, suffix |-> ""]

\* getStatDisplay, lines 67-73: `%${districtValue}` or `${references} Ref`, or null
getStatDisplay(metric, references, districtValue) ==
    IF metric = "district"
    THEN IF ~IsNaN(districtValue) /\ districtValue > 0
         THEN [shown |-> TRUE, prefix |-> "%", value |-> districtValue, suffix |-> ""]
         ELSE NoStat
    ELSE IF ~IsNaN(references) /\ references > 0
         THEN [shown |-> TRUE, prefix |-> "", value |-> references, suffix |-> " Ref"]
         ELSE NoStat

NoContent ==
    [ drawn |-> FALSE, rw |-> 0, rh |-> 0, fill |-> [h |-> 0, s |-> 0, lnum |-> 0, lden |-> 1],
      nameShown |-> FALSE, nameText |-> <<>>, fontSize |-> 0, maxChars |-> 0,
      statShown |-> FALSE, stat |-> NoStat ]

\* The component: what it returns for its props (null is NoContent).
CustomizedContent(props) ==
    IF props.depth = 0 THEN NoContent
    ELSE LET rw == Max2(props.width - gutter * 2, 0)
             rh == Max2(props.height - gutter * 2, 0)
         IN  IF rw < 15 \/ rh < 12 THEN NoContent
             ELSE LET canShowText  == rw > 35 /\ rh > 20
                      canShowStats == rw > 70 /\ rh > 45
                      fontSize     == getFontSize(rw, rh)
                      maxChars     == getMaxChars(rw)
                      statDisplay  == getStatDisplay(props.areaMetric, props.references,
                                                     props.districtValue)
                  IN  [ drawn     |-> TRUE,
                        rw        |-> rw,
                        rh        |-> rh,
                        fill      |-> getColorWithShade(props.level, props.references,
                                                        props.maxMetric),
                        nameShown |-> canShowText,
                        nameText  |-> IF canShowText
                                      THEN truncateName(props.name, maxChars) ELSE <<>>,
                        fontSize  |-> fontSize,
                        maxChars  |-> maxChars,
                        statShown |-> canShowStats /\ statDisplay.shown,
                        stat      |-> IF canShowStats THEN statDisplay ELSE NoStat ]

----------------------------------------------------------------------------
(* handleMouseMove, part_001 lines 139-159 *)

tooltipWidth  == 220
tooltipHeight == 180
cursorOffset  == 16
edgeMargin    == 30

\* containerRef.current is set only while the treemap wrapper is rendered
\* (lines 206-219); App renders TreeMapChart only once loading is false.
containerMounted == ~loading /\ Len(filteredPartners) > 0

\* the position handed to setTooltipPos for a pointer at (clientX, clientY)
placeTooltip(clientX, clientY, vp) ==
    [ x |-> IF clientX + tooltipWidth + edgeMargin > vp.w
            THEN clientX - tooltipWidth - cursorOffset
            ELSE clientX + cursorOffset,
      y |-> IF clientY + tooltipHeight + edgeMargin > vp.h
            THEN clientY - tooltipHeight - cursorOffset
            ELSE clientY + cursorOffset ]


----------------------------------------------------------------------------
(* The environment: datasets the fetch may return and what the user enters *)

\* largest number of records in a dataset
MaxPartners == 2

RawPartner(name, level, city, country, refs, district) ==
    [ name                    |-> name,
      level                   |-> level,
      city                    |-> city,
      country                 |-> country,
      average_project_size    |-> <<"5", "-", "1", "0">>,
      large_project_size      |-> Null,
      references_count        |-> refs,
      certified_experts_count |-> <<"3">>,
      district                |-> district,
      profile_url             |-> <<"/", "b">> ]

Ankara == <<"A", "n", "k", "a", "r", "a">>

CatalogRecords ==
    << RawPartner(<<"B", "i", "t", "s">>, "Gold",
                  <<"i", "s", "t", "a", "n", "b", "u", "l", " ">>, Turkiye,
                  <<"1", "2", "0">>, <<"3">>),
       RawPartner(<<"S", "u", "n">>, "Gold", Ankara, Turkiye,
                  <<"5">>, <<"8", "0">>),
       RawPartner(<<"L", "a", "b">>, "Silver", Null, Turkiye,
                  <<"1", "0">>, Null),
       RawPartner(<<"K", "e", "n", "t">>, "Learning", Turkiye, Ankara,
                  <<"7">>, <<"0">>),
       RawPartner(<<"A", "n", "t">>, "Ready", Ankara, Null,
                  <<"N", "/", "A">>, <<"9">>) >>

\* every list of at most MaxPartners catalog records
Datasets ==
    UNION { { [i \in 1..n |-> CatalogRecords[f[i]]] :
                f \in [1..n -> 1..Len(CatalogRecords)] } : n \in 0..MaxPartners }

\* texts typed into the search box
Queries == { <<>>, <<"A", "N">> }

TierNames == {"Gold", "Silver", "Ready"}

\* positions the two range sliders are dragged to (Header.jsx lines 137-156):
\* the browser keeps a range input inside [0, max], with max = 100 when the
\* max attribute is not a number.
SliderTop(list) ==
    LET m == SidebarMaxReferences(list) IN IF IsNaN(m) THEN DefaultMaxReferences ELSE m

MinStops(list) == {0, 10} \cap (0..SliderTop(list))
MaxStops(list) == ({5} \cap (0..SliderTop(list))) \cup {SliderTop(list)}

----------------------------------------------------------------------------
(* App and TreeMapChart: the events *)

NoTooltip == <<>>

AppInit ==
    /\ phase = "constructed"
    /\ fetchCount = 0
    /\ partners = <<>>
    /\ filteredPartners = <<>>
    /\ loading = TRUE
    /\ searchQuery = <<>>
    /\ filters = InitialFilters
    /\ areaMetric = "references"
    /\ effectPending = FALSE
    /\ tooltipData = NoTooltip

\* Mount with the load effect's dependency list left out: the effect runs
\* again after every render that follows a settled fetch
MountWithoutDeps ==
    /\ phase # "pending"
    /\ phase' = "pending"
    /\ fetchCount' = fetchCount + 1
    /\ filteredPartners' = applyFilters(partners, searchQuery, filters)
    /\ UNCHANGED <<partners, loading, searchQuery, filters, areaMetric,
                   effectPending, tooltipData>>
    /\ UNCHANGED <<ptrVars, loadVars, boxVars>>

\* First commit: both effects run, in source order (part_000 lines 37-40, 75-102).
Mount ==
    /\ phase = "constructed"
    /\ phase' = "pending"
    /\ fetchCount' = fetchCount + 1
    /\ filteredPartners' = applyFilters(partners, searchQuery, filters)
    /\ UNCHANGED <<partners, loading, searchQuery, filters, areaMetric,
                   effectPending, tooltipData>>
    /\ UNCHANGED <<ptrVars, loadVars, boxVars>>

\* The fetch resolved with data (part_000 lines 40-67); the four state updates
\* are applied together and the filter effect is scheduled.
LoadSuccess(data) ==
    /\ phase = "pending"
    /\ LET enhancedPartners == MapEnhance(data)
       IN  /\ partners' = enhancedPartners
           /\ filteredPartners' = enhancedPartners
           /\ filters' = [filters EXCEPT
                            !.maxReferences  = maxRefsOf(enhancedPartners),
                            !.selectedCities = uniqueCitiesOf(enhancedPartners)]
    /\ loading' = FALSE
    /\ phase' = "ok"
    /\ effectPending' = TRUE
    /\ UNCHANGED <<fetchCount, searchQuery, areaMetric, tooltipData>>
    /\ UNCHANGED <<ptrVars, loadVars, boxVars>>

\* the catch handler without its setLoading(false)
LoadFailureKeepsLoading ==
    /\ phase = "pending"
    /\ phase' = "failed"
    /\ UNCHANGED <<fetchCount, partners, filteredPartners, loading, searchQuery, filters,
                   areaMetric, effectPending, tooltipData>>
    /\ UNCHANGED <<ptrVars, loadVars, boxVars>>

\* The fetch, res.json() or the success callback threw (part_000 lines 68-71).
LoadFailure ==
    /\ phase = "pending"
    /\ phase' = "failed"
    /\ loading' = FALSE
    /\ UNCHANGED <<fetchCount, partners, filteredPartners, searchQuery, filters,
                   areaMetric, effectPending, tooltipData>>
    /\ UNCHANGED <<ptrVars, loadVars, boxVars>>

\* The filter effect (part_000 lines 75-102).
FilterEffect ==
    /\ effectPending
    /\ filteredPartners' = applyFilters(partners, searchQuery, filters)
    /\ effectPending' = FALSE
    /\ UNCHANGED <<phase, fetchCount, partners, loading, searchQuery, filters,
                   areaMetric, tooltipData>>
    /\ UNCHANGED <<ptrVars, loadVars, boxVars>>

\* Header, Sidebar and the metric buttons exist once loading is false; React
\* runs a scheduled effect before it handles the next event.
Interactive == ~loading /\ ~effectPending

\* Header.jsx line 21
SetSearchQuery(q) ==
    /\ Interactive
    /\ q # searchQuery
    /\ searchQuery' = q
    /\ effectPending' = TRUE
    /\ UNCHANGED <<phase, fetchCount, partners, filteredPartners, loading, filters,
                   areaMetric, tooltipData>>
    /\ UNCHANGED <<ptrVars, loadVars, boxVars>>

\* the updater without its includes test: x is appended every time
toggledAlwaysAppends(list, x) == Append(list, x)

\* prev.levels.includes(x) ? prev.levels.filter(l => l !== x) : [...prev.levels, x]
toggled(list, x) ==
    IF InSeq(x, list)
    THEN LET Keep(e) == e # x IN SelectSeq(list, Keep)
    ELSE Append(list, x)

\* part_000 lines 108-115, called from Header.jsx line 113
ToggleLevel(level) ==
    /\ Interactive
    /\ filters' = [filters EXCEPT !.levels = toggled(filters.levels, level)]
    /\ effectPending' = TRUE
    /\ UNCHANGED <<phase, fetchCount, partners, filteredPartners, loading, searchQuery,
                   areaMetric, tooltipData>>
    /\ UNCHANGED <<ptrVars, loadVars, boxVars>>

\* part_000 lines 117-124, called from Header.jsx line 181
ToggleCity(city) ==
    /\ Interactive
    /\ InSeq(city, SidebarUniqueCities(partners))
    /\ filters' = [filters EXCEPT !.selectedCities = toggled(filters.selectedCities, city)]
    /\ effectPending' = TRUE
    /\ UNCHANGED <<phase, fetchCount, partners, filteredPartners, loading, searchQuery,
                   areaMetric, tooltipData>>
    /\ UNCHANGED <<ptrVars, loadVars, boxVars>>

\* part_000 lines 104-106, called from Header.jsx lines 142 and 154
UpdateFilter(key, value) ==
    /\ Interactive
    /\ filters' = [filters EXCEPT ![key] = value]
    /\ effectPending' = TRUE
    /\ UNCHANGED <<phase, fetchCount, partners, filteredPartners, loading, searchQuery,
                   areaMetric, tooltipData>>
    /\ UNCHANGED <<ptrVars, loadVars, boxVars>>

\* part_000 lines 168 and 174
SetAreaMetric(metric) ==
    /\ Interactive
    /\ metric # areaMetric
    /\ areaMetric' = metric
    /\ UNCHANGED <<phase, fetchCount, partners, filteredPartners, loading, searchQuery,
                   filters, effectPending, tooltipData>>
    /\ UNCHANGED <<ptrVars, loadVars, boxVars>>

\* handleMouseEnter, part_001 lines 196-200: the pointer enters a box
MouseEnter(data) ==
    /\ Interactive
    /\ containerMounted
    /\ tooltipData' = IF Truthy(data.name) THEN <<data>> ELSE tooltipData
    /\ UNCHANGED <<phase, fetchCount, partners, filteredPartners, loading, searchQuery,
                   filters, areaMetric, effectPending>>
    /\ UNCHANGED <<ptrVars, loadVars, boxVars>>

\* handleMouseLeave, part_001 lines 202-204: the pointer leaves the wrapper
MouseLeave ==
    /\ Interactive
    /\ containerMounted
    /\ tooltipData' = NoTooltip
    /\ UNCHANGED <<phase, fetchCount, partners, filteredPartners, loading, searchQuery,
                   filters, areaMetric, effectPending>>
    /\ UNCHANGED <<ptrVars, loadVars, boxVars>>


\* handleMouseMove, part_001 lines 139-159; the listener exists while
\* TreeMapChart is mounted, i.e. once loading is false.
HandleMouseMove(clientX, clientY) ==
    /\ ~loading
    /\ tooltipPos' = IF containerMounted
                     THEN placeTooltip(clientX, clientY, viewport)
                     ELSE tooltipPos
    /\ UNCHANGED <<viewport, appVars, loadVars, boxVars>>

\* the browser window is resized
ResizeWindow(w, h) ==
    /\ viewport' = [w |-> w, h |-> h]
    /\ UNCHANGED <<tooltipPos, appVars, loadVars, boxVars>>

----------------------------------------------------------------------------
(* Inputs of the loader's callback *)

Pads == { <<>>, <<" ">> }

IstanbulSpellings ==
    { pre \o <<first>> \o rest \o post :
        pre \in Pads, post \in Pads,
        first \in {"i", "I", "I_dot", "i_nodot"},
        rest \in { <<"s", "t", "a", "n", "b", "u", "l">>,
                   <<"S", "T", "A", "N", "B", "U", "L">>,
                   <<"s", "t", "a", "n", "b", "u", "L">> } }

CityInputs ==
    IstanbulSpellings \cup
    { Null, <<>>, <<" ">>, <<" ", " ">>, <<"\t">>, Ankara,
      <<" ">> \o Ankara \o <<" ">>, <<"a", "n", "k", "a", "r", "a">>,
      <<" ">> \o Turkiye, <<"i", "s", "t", "a", "n", "b", "u", "l", "u">> }

NumberInputs ==
    { Null, <<>>, <<"0">>, <<"1", "2">>, <<" ", "4", "2">>, <<"-", "5">>,
      <<"N", "/", "A">>, <<"5", "-", "1", "0">>, <<"1", "0", "+">>, <<"%", "8", "5">> }

LoaderInputs ==
    { [CatalogRecords[2] EXCEPT !.city = c, !.country = Null] : c \in CityInputs }
    \cup
    { [CatalogRecords[2] EXCEPT !.city = Turkiye, !.country = c] :
        c \in {Null, Turkiye, Ankara, <<" ", "I", "s", "t", "a", "n", "b", "u", "l">>} }
    \cup
    { [CatalogRecords[2] EXCEPT !.average_project_size = a, !.references_count = a,
                                !.district = a,
                                !.large_project_size = b,
                                !.certified_experts_count = b] :
        a \in NumberInputs, b \in NumberInputs }

\* data.partners.map reaches the next record
NextRecord(p) ==
    /\ rawPartner' = p
    /\ enhanced' = <<>>
    /\ UNCHANGED <<appVars, ptrVars, boxVars>>

\* the callback runs on it
EnhanceRecord ==
    /\ enhanced = <<>>
    /\ enhanced' = <<enhancePartner(rawPartner)>>
    /\ UNCHANGED <<rawPartner, appVars, ptrVars, boxVars>>

----------------------------------------------------------------------------
(* Inputs of CustomizedContent *)

\* longest partner name laid out
MaxNameLen == 29

NameOfLen(n) == [i \in 1..n |-> "x"]

BoxNames == { Null } \cup { NameOfLen(n) : n \in {8, 9, 13, MaxNameLen} }

\* widths and heights on both sides of every threshold of the component
BoxWidths  == {0, 22, 23, 43, 44, 68, 69, 78, 79, 108, 109, 148, 149, 158, 159, 188, 189}
BoxHeights == {0, 19, 20, 28, 29, 38, 39, 53, 54, 68, 69}

BoxMetrics ==
    { [areaMetric |-> m, references |-> r[1], districtValue |-> r[2]] :
        m \in {"references", "district"}, r \in { <<0, 80>>, <<7, 0>> } }

InitialBox ==
    [ x |-> 0, y |-> 0, width |-> 0, height |-> 0, name |-> NameOfLen(8),
      level |-> "Gold", references |-> 7, districtValue |-> 0, index |-> 0,
      depth |-> 1, maxMetric |-> 7, areaMetric |-> "references" ]

\* Treemap lays the node out anew and renders it
Relayout(w, h) ==
    /\ box' = [box EXCEPT !.width = w, !.height = h]
    /\ content' = CustomizedContent(box')
    /\ UNCHANGED <<appVars, ptrVars, loadVars>>

\* the node shows another partner, or the metric changed, or it is the root
Rebind(name, m, depth) ==
    /\ box' = [box EXCEPT !.name = name, !.areaMetric = m.areaMetric,
                          !.references = m.references,
                          !.districtValue = m.districtValue, !.depth = depth]
    /\ content' = CustomizedContent(box')
    /\ UNCHANGED <<appVars, ptrVars, loadVars>>

----------------------------------------------------------------------------
(* Specifications *)

InitialViewport == [w |-> 1280, h |-> 720]

RestInit ==
    /\ tooltipPos = [x |-> 0, y |-> 0]
    /\ viewport = InitialViewport
    /\ rawPartner = CatalogRecords[1]
    /\ enhanced = <<>>
    /\ box = InitialBox
    /\ content = CustomizedContent(InitialBox)

Init == AppInit /\ RestInit

\* The filter pipeline: load, search box, tier and city checkboxes, sliders,
\* and the filter effect.
Next ==
    \/ Mount
    \/ \E data \in Datasets : LoadSuccess(data)
    \/ LoadFailure
    \/ FilterEffect
    \/ \E q \in Queries : SetSearchQuery(q)
    \/ \E level \in TierNames : ToggleLevel(level)
    \/ \E i \in 1..Len(SidebarUniqueCities(partners)) :
          ToggleCity(SidebarUniqueCities(partners)[i])
    \/ \E value \in MinStops(partners) : UpdateFilter("minReferences", value)
    \/ \E value \in MaxStops(partners) : UpdateFilter("maxReferences", value)

Spec == Init /\ [][Next]_vars

\* React runs every effect it has scheduled.
FairSpec == Init /\ [][Next]_vars /\ WF_vars(FilterEffect)

\* The chart: load, city checkboxes, metric switch, hovering.
ChartNext ==
    \/ Mount
    \/ \E data \in Datasets : LoadSuccess(data)
    \/ LoadFailure
    \/ FilterEffect
    \/ \E i \in 1..Len(SidebarUniqueCities(partners)) :
          ToggleCity(SidebarUniqueCities(partners)[i])
    \/ \E metric \in {"references", "district"} : SetAreaMetric(metric)
    \/ \E i \in 1..Len(filteredPartners) :
          MouseEnter(chartDataOf(filteredPartners, areaMetric)[i])
    \/ MouseLeave

ChartSpec == Init /\ [][ChartNext]_vars

\* A whole session on one of two datasets: every event of the dashboard.
SessionDatasets == { <<>>, <<CatalogRecords[1], CatalogRecords[2]>> }

SessionPointers == { [x |-> 640, y |-> 360] }

SessionNext ==
    \/ Mount
    \/ \E data \in SessionDatasets : LoadSuccess(data)
    \/ LoadFailure
    \/ FilterEffect
    \/ \E q \in Queries : SetSearchQuery(q)
    \/ \E level \in TierNames : ToggleLevel(level)
    \/ \E i \in 1..Len(SidebarUniqueCities(partners)) :
          ToggleCity(SidebarUniqueCities(partners)[i])
    \/ \E value \in MinStops(partners) : UpdateFilter("minReferences", value)
    \/ \E value \in MaxStops(partners) : UpdateFilter("maxReferences", value)
    \/ \E metric \in {"references", "district"} : SetAreaMetric(metric)
    \/ MouseEnter(chartDataOf(filteredPartners, areaMetric)[1])
    \/ MouseLeave
    \/ \E pt \in SessionPointers : HandleMouseMove(pt.x, pt.y)

SessionSpec == Init /\ [][SessionNext]_vars

\* The loader's callback on one record after another.
LoaderNext ==
    \/ \E p \in LoaderInputs : NextRecord(p)
    \/ EnhanceRecord

LoaderSpec == Init /\ [][LoaderNext]_vars

\* One treemap node, laid out and rendered again and again.
BoxNext ==
    \/ \E w \in BoxWidths, h \in BoxHeights : Relayout(w, h)
    \/ \E name \in BoxNames, m \in BoxMetrics, depth \in {0, 1} : Rebind(name, m, depth)

BoxSpec == Init /\ [][BoxNext]_vars

\* The tooltip: load, mouse moves, window resizes.
Viewports ==
    { InitialViewport, [w |-> 486, h |-> 406], [w |-> 390, h |-> 844],
      [w |-> 800, h |-> 360] }

PointerXs(vp) ==
    {0, 100, 235, 236, vp.w - 251, vp.w - 250, vp.w - 249, vp.w - 1} \cap (0..(vp.w - 1))

PointerYs(vp) ==
    {0, 100, 195, 196, vp.h - 211, vp.h - 210, vp.h - 209, vp.h - 1} \cap (0..(vp.h - 1))

PointerNext ==
    \/ Mount
    \/ \E data \in SessionDatasets : LoadSuccess(data)
    \/ LoadFailure
    \/ FilterEffect
    \/ \E x \in PointerXs(viewport), y \in PointerYs(viewport) : HandleMouseMove(x, y)
    \/ \E vp \in Viewports : ResizeWindow(vp.w, vp.h)

PointerSpec == Init /\ [][PointerNext]_vars

----------------------------------------------------------------------------
(* Claims about the filter pipeline *)

RECURSIVE IsSubList(_, _)
\* a is b with some elements left out, the order kept
IsSubList(a, b) ==
    IF a = <<>> THEN TRUE
    ELSE IF b = <<>> THEN FALSE
    ELSE IF Head(a) = Head(b) THEN IsSubList(Tail(a), Tail(b))
    ELSE IsSubList(a, Tail(b))

\* the four conditions of the filter, on one partner
MatchesSearch(p) ==
    \/ searchQuery = <<>>
    \/ includes(toLowerCase(p.name), toLowerCase(searchQuery))
    \/ /\ IsString(p.displayCity)
       /\ includes(toLowerCase(p.displayCity), toLowerCase(searchQuery))

MatchesLevel(p) ==
    \/ filters.levels = <<>>
    \/ \E i \in 1..Len(filters.levels) : filters.levels[i] = p.level

MatchesReferences(p) ==
    /\ ~IsNaN(p.references) /\ ~IsNaN(filters.minReferences)
    /\ ~IsNaN(filters.maxReferences)
    /\ filters.minReferences <= p.references
    /\ p.references <= filters.maxReferences

MatchesCity(p) ==
    \E i \in 1..Len(filters.selectedCities) : filters.selectedCities[i] = p.displayCity

MatchesAll(p) ==
    MatchesSearch(p) /\ MatchesLevel(p) /\ MatchesReferences(p) /\ MatchesCity(p)

\* the partners at the indices in I, in the order of partners
RECURSIVE PickIndices(_, _)
PickIndices(I, from) ==
    IF from > Len(partners) THEN <<>>
    ELSE (IF from \in I THEN <<partners[from]>> ELSE <<>>) \o PickIndices(I, from + 1)

C1_Recomputed ==
    ~effectPending =>
        filteredPartners = PickIndices({ i \in 1..Len(partners) : MatchesAll(partners[i]) }, 1)

C1_ChangeSchedulesEffect ==
    (partners' # partners \/ searchQuery' # searchQuery \/ filters' # filters)
        => effectPending'

\* C1: once the filter effect has run for the latest state, filteredPartners is
\* exactly the partners, in their original order, that satisfy the search, tier,
\* reference-range and city conditions; every change of partners, searchQuery
\* or filters schedules the effect and the effect then runs; and filteredPartners
\* is always a sub-list of partners.
C1_FilterEffectComputesVisibleSubset ==
    /\ [](C1_Recomputed)
    /\ [](IsSubList(filteredPartners, partners))
    /\ [][C1_ChangeSchedulesEffect]_vars
    /\ (effectPending ~> (~effectPending /\ C1_Recomputed))

\* a loaded dataset, a search text, a raised lower bound: some partners are
\* kept and some are dropped
C1_Witness ==
    /\ phase = "ok" /\ ~effectPending
    /\ searchQuery # <<>>
    /\ filters.minReferences > 0
    /\ Len(filteredPartners) > 0
    /\ Len(filteredPartners) < Len(partners)

\* one stage of the effect, by number
ApplyStage(k, list) ==
    CASE k = 1 -> SearchStage(list, searchQuery)
      [] k = 2 -> LevelStage(list, filters)
      [] k = 3 -> ReferencesStage(list, filters)
      [] k = 4 -> CityStage(list, filters)

RECURSIVE ApplyOrder(_, _, _)
\* the stages applied in the order order[from], order[from + 1], ...
ApplyOrder(order, from, list) ==
    IF from > 4 THEN list
    ELSE ApplyOrder(order, from + 1, ApplyStage(order[from], list))

\* indices of the partners stage k keeps when it is applied to partners alone
KeptBy(k) ==
    { i \in 1..Len(partners) : ApplyStage(k, <<partners[i]>>) # <<>> }

\* C2: the visible subset the effect computed is the intersection of the four
\* subsets the search, tier, reference-range and city stages select from
\* partners one by one, and applying the four stages in any order gives it too.
C2_FilteringComposable ==
    ~effectPending =>
        /\ filteredPartners =
              PickIndices(KeptBy(1) \cap KeptBy(2) \cap KeptBy(3) \cap KeptBy(4), 1)
        /\ \A order \in Permutations(1..4) :
              ApplyOrder(order, 1, partners) = filteredPartners

\* every stage drops a partner another stage keeps
C2_Witness ==
    /\ phase = "ok" /\ ~effectPending
    /\ Len(partners) = MaxPartners
    /\ Len(filteredPartners) = 1
    /\ searchQuery # <<>>
    /\ KeptBy(1) # KeptBy(4)
    /\ KeptBy(3) # KeptBy(1)


----------------------------------------------------------------------------
(* Claims about the load *)

C3_StepKeepsLoad ==
    /\ fetchCount' # fetchCount => phase = "constructed" /\ fetchCount' = 1
    /\ partners' # partners => phase = "pending" /\ phase' = "ok" /\ partners = <<>>
    /\ phase \in {"ok", "failed"} => phase' = phase
    /\ ~loading => ~loading'

\* C3: the dataset is fetched once, by the load effect at mount; partners
\* changes at most once, from the empty list, when that fetch succeeds; no
\* later event changes partners or fetches again; loading is true exactly
\* until the fetch settles and false from then on.
C3_LoadedOnce ==
    /\ [](fetchCount <= 1)
    /\ [](loading <=> phase \in {"constructed", "pending"})
    /\ [](phase \in {"constructed", "pending", "failed"} => partners = <<>>)
    /\ [][C3_StepKeepsLoad]_vars

\* a loaded dataset after a search, a tier toggle, a slider move, a metric
\* switch, a hover and a mouse move
C3_Witness ==
    /\ phase = "ok" /\ partners # <<>> /\ fetchCount = 1 /\ ~loading
    /\ searchQuery # <<>>
    /\ filters.levels # InitialFilters.levels
    /\ filters.minReferences # 0
    /\ Len(filters.selectedCities) = 1
    /\ areaMetric = "district"
    /\ tooltipData # NoTooltip
    /\ tooltipPos # [x |-> 0, y |-> 0]

C4_FailureStep ==
    (phase = "pending" /\ phase' = "failed") =>
        /\ ~loading'
        /\ partners' = <<>> /\ filteredPartners' = <<>>
        /\ filters' = InitialFilters

\* C4: when the fetch fails, loading becomes false, partners and
\* filteredPartners stay empty and filters keep their initial values; from then
\* on every filter operation leaves the visible subset empty and the chart
\* shows its empty-state message.
C4_FetchErrorFallback ==
    /\ [][C4_FailureStep]_vars
    /\ [](phase = "failed" =>
            /\ ~loading
            /\ partners = <<>> /\ filteredPartners = <<>>
            /\ applyFilters(partners, searchQuery, filters) = <<>>
            /\ appView = "empty")

\* after the failure the user searched, unchecked tiers and moved both sliders
C4_Witness ==
    /\ phase = "failed" /\ ~effectPending
    /\ searchQuery # <<>>
    /\ filters.levels = <<>>
    /\ filters.minReferences > 0
    /\ filters.maxReferences < DefaultMaxReferences
    /\ appView = "empty"


----------------------------------------------------------------------------
(* Claims about the loader's callback *)

\* one code unit with letter case and the dot of the letter i disregarded
FoldChar(c) ==
    IF c \in {"i", "I", "I_dot", "i_nodot"} THEN "i" ELSE Head(LowerChar(c))

\* c is a spelling of Istanbul up to letter case, dotted or dotless i and
\* surrounding white space
IsIstanbulSpelling(c) ==
    /\ IsString(c)
    /\ LET t == trim(c)
       IN  /\ Len(t) = Len(IstanbulLower)
           /\ \A i \in 1..Len(t) : FoldChar(t[i]) = IstanbulLower[i]

\* the raw city the callback hands to normalizeCity (part_000 line 43)
RawCityOf(p) == IF p.city = Turkiye THEN p.country ELSE p.city

\* C5: normalizeCity gives null for a missing or empty input, the trimmed form
\* for every other input, 'Istanbul' with a dotted capital for every spelling
\* of Istanbul that differs in letter case, dotted or dotless i or surrounding
\* white space only, and normalizing its result again changes nothing.
C5_NormalizeCityCanonical ==
    enhanced # <<>> =>
        LET c == RawCityOf(rawPartner)
            d == enhanced[1].displayCity
        IN  /\ (c = Null \/ c = <<>>) => d = Null
            /\ IsIstanbulSpelling(c) => d = IstanbulName
            /\ (c # Null /\ c # <<>> /\ ~IsIstanbulSpelling(c)) => d = trim(c)
            /\ normalizeCity(d) = d

\* the digits-only strings and what they denote
IsDigitString(v) == IsString(v) /\ v # <<>> /\ \A i \in 1..Len(v) : v[i] \in Digits

HasDigit(v) == IsString(v) /\ \E i \in 1..Len(v) : v[i] \in Digits

\* what the claim requires of one derived field n read from source string v;
\* firstRun tells whether the field takes the first run of digits of v
DerivedAsClaimed(n, v, firstRun) ==
    /\ ~IsNaN(n) /\ n \in Nat
    /\ ~HasDigit(v) => n = 0
    /\ IsDigitString(v) => n = DecimalValue(v, 0)
    /\ (firstRun /\ HasDigit(v)) => n = DecimalValue(FirstDigitRun(v), 0)

\* C7: every derived numeric field of an enhanced record is a non-negative
\* integer, the number written in its source string (the first run of digits
\* for the project-size fields), 0 when the source is missing, empty or holds no
\* number; every other field of the raw record is copied unchanged.
C7_DerivedFieldsAreNumbers ==
    enhanced # <<>> =>
        LET p == rawPartner
            e == enhanced[1]
        IN  /\ DerivedAsClaimed(e.average_users, p.average_project_size, TRUE)
            /\ DerivedAsClaimed(e.large_users, p.large_project_size, TRUE)
            /\ DerivedAsClaimed(e.references, p.references_count, FALSE)
            /\ DerivedAsClaimed(e.experts, p.certified_experts_count, FALSE)
            /\ DerivedAsClaimed(e.districtValue, p.district, FALSE)
            /\ \A k \in DOMAIN p : e[k] = p[k]


----------------------------------------------------------------------------
(* Claims about the derived filter domains *)

\* the largest of the numbers in S and of floor
LargestOf(S, floor) == CHOOSE m \in S \cup {floor} : \A n \in S \cup {floor} : n <= m

ReferenceValues == { partners[i].references : i \in 1..Len(partners) }

DisplayCities == { partners[i].displayCity : i \in 1..Len(partners) } \ {Null}

IsSortedDistinct(list) ==
    \A i \in 1..(Len(list) - 1) : StrLess(list[i], list[i + 1])

DomainsAsClaimed(f) ==
    /\ f.maxReferences = LargestOf(ReferenceValues, DefaultMaxReferences)
    /\ IsSortedDistinct(f.selectedCities)
    /\ { f.selectedCities[i] : i \in 1..Len(f.selectedCities) } = DisplayCities
    /\ f.levels = InitialFilters.levels
    /\ f.minReferences = InitialFilters.minReferences

\* C6: after a successful load and before any change of the search text or
\* the filters, maxReferences is max(100, largest references), selectedCities
\* is the sorted list of the distinct non-null display cities, levels and
\* minReferences are the defaults, the Sidebar computes the same slider bound
\* and city list, and every loaded partner is visible: filteredCount = totalCount.
C6_DomainsDerivedAllVisible ==
    (phase = "ok" /\ searchQuery = <<>>
       /\ filters = [InitialFilters EXCEPT
                       !.maxReferences  = maxRefsOf(partners),
                       !.selectedCities = uniqueCitiesOf(partners)])
    => /\ DomainsAsClaimed(filters)
       /\ SidebarMaxReferences(partners) = filters.maxReferences
       /\ SidebarUniqueCities(partners) = filters.selectedCities
       /\ filteredPartners = partners
       /\ Len(filteredPartners) = Len(partners)

----------------------------------------------------------------------------
(* Claims about the chart *)

MetricValue(entry, metric) ==
    IF metric = "district" THEN entry.districtValue ELSE entry.references

\* lightness of a not above lightness of b, as fractions lnum / lden
NotLighter(a, b) ==
    /\ ~IsNaN(a.lnum) /\ ~IsNaN(b.lnum)
    /\ a.lnum * b.lden <= b.lnum * a.lden

ChartAsClaimed(list, metric) ==
    LET data == chartDataOf(list, metric)
        n    == Len(list)
    IN  /\ Len(data) = n
        /\ { data[i].index : i \in 1..n } = 0..(n - 1)
        /\ \A i \in 1..n :
              LET e == data[i]
                  p == list[e.index + 1]
                  v == MetricValue(e, metric)
              IN  /\ e.name = p.name /\ e.level = p.level
                  /\ e.references = p.references
                  /\ e.districtValue = p.districtValue
                  /\ ~IsNaN(e.size) /\ e.size >= 1
                  /\ e.size = (IF v > 1 THEN v ELSE 1)
        /\ \A i \in 1..(n - 1) : data[i].size >= data[i + 1].size
        /\ \A i, j \in 1..n :
              LET a == data[i]
                  b == data[j]
              IN  /\ boxFill(a).h = BaseColor(a.level).h
                  /\ boxFill(a).s = BaseColor(a.level).s
                  /\ (a.level = b.level
                        /\ MetricValue(a, metric) <= MetricValue(b, metric))
                     => NotLighter(boxFill(b), boxFill(a))

\* C8: chartData has exactly one entry per visible partner, of size
\* max(v, 1) >= 1 for v the references (metric 'references') or the
\* districtValue (metric 'district'), in non-increasing order of size; the
\* other metric shows the same partners; hue and saturation come from the tier
\* and, within a tier, a larger metric value never gives a lighter box.
C8_ChartDataMatchesVisibleSubset ==
    ~loading =>
        /\ ChartAsClaimed(filteredPartners, areaMetric)
        /\ { e.index : e \in { chartDataOf(filteredPartners, "references")[i] :
                                 i \in 1..Len(filteredPartners) } }
           = { e.index : e \in { chartDataOf(filteredPartners, "district")[i] :
                                 i \in 1..Len(filteredPartners) } }

----------------------------------------------------------------------------
(* Claims about the labels *)

BoxInner(n) == IF n - 8 > 0 THEN n - 8 ELSE 0

C9_Density ==
    LET rw == BoxInner(box.width)
        rh == BoxInner(box.height)
        v  == IF box.areaMetric = "district" THEN box.districtValue ELSE box.references
    IN  /\ content.drawn => rw >= 15 /\ rh >= 12
        /\ content.nameShown => rw > 35 /\ rh > 20
        /\ content.statShown => rw > 70 /\ rh > 45 /\ v > 0
        /\ content.statShown => content.nameShown
        /\ content.nameShown => content.drawn
        /\ content.drawn => /\ content.fontSize \in {8, 9, 11, 13}
                            /\ content.maxChars \in {8, 12, 16, 22, 28}
        /\ content.nameShown => Len(content.nameText) <= content.maxChars

C9_Enlarging ==
    (/\ box'.width >= box.width /\ box'.height >= box.height
     /\ box' = [box EXCEPT !.width = box'.width, !.height = box'.height])
    => /\ content.drawn => content'.drawn
       /\ content.nameShown => content'.nameShown
       /\ content.statShown => content'.statShown
       /\ content.drawn => /\ content'.fontSize >= content.fontSize
                           /\ content'.maxChars >= content.maxChars

----------------------------------------------------------------------------
(* Claims about the tooltip *)

PlacedAsClaimed(clientX, clientY, vp, pos) ==
    /\ pos.x = (IF clientX + tooltipWidth > vp.w - edgeMargin
                THEN clientX - 236 ELSE clientX + 16)
    /\ pos.y = (IF clientY + tooltipHeight > vp.h - edgeMargin
                THEN clientY - 196 ELSE clientY + 16)
    /\ 0 <= pos.x /\ pos.x + tooltipWidth <= vp.w
    /\ 0 <= pos.y /\ pos.y + tooltipHeight <= vp.h

C10_MoveKeepsTooltipInside ==
    \A x \in PointerXs(viewport), y \in PointerYs(viewport) :
        (HandleMouseMove(x, y) /\ containerMounted)
            => PlacedAsClaimed(x, y, viewport, tooltipPos')

\* C10: for every pointer position inside the viewport the tooltip is put at
\* (clientX + 16, clientY + 16), flipped to clientX - 236 resp. clientY - 196
\* within 30 px of the right resp. bottom edge, and its 220 x 180 rectangle
\* lies inside the viewport.
C10_TooltipStaysOnScreen == [][C10_MoveKeepsTooltipInside]_vars

----------------------------------------------------------------------------
(* Claims about the city and tier selections *)

\* tier selections the three checkboxes can produce, as far as the filter can
\* tell them apart
LevelLists ==
    { <<>>, <<"Gold">>, <<"Silver", "Ready">>, <<"Gold", "Silver", "Ready">>,
      <<"Ready", "Gold">> }

\* the visible subset the effect computes from the loaded partners for any
\* search text, tier selection and reference bounds, the city selection kept
RecomputedSubsets ==
    { applyFilters(partners, q,
                   [filters EXCEPT !.levels = lv, !.minReferences = mn,
                                   !.maxReferences = mx]) :
        q \in Queries, lv \in LevelLists,
        mn \in MinStops(partners), mx \in MaxStops(partners) }

\* C11: the city filter is always applied: with no city selected the recomputed
\* visible subset is empty whatever the search text, tiers and reference bounds
\* are; the selected cities never hold null, and a partner whose displayCity is
\* null is in no recomputed visible subset.
C11_CityFilterAlwaysApplied ==
    /\ \A i \in 1..Len(filters.selectedCities) : filters.selectedCities[i] # Null
    /\ \A i \in 1..Len(SidebarUniqueCities(partners)) :
          SidebarUniqueCities(partners)[i] # Null
    /\ filters.selectedCities = <<>> => RecomputedSubsets = { <<>> }
    /\ \A r \in RecomputedSubsets : \A i \in 1..Len(r) : r[i].displayCity # Null
    /\ ~effectPending =>
          /\ filters.selectedCities = <<>> => filteredPartners = <<>>
          /\ \A i \in 1..Len(filteredPartners) : filteredPartners[i].displayCity # Null

\* a loaded dataset with a partner without a city and one with a city, whose
\* city has been unchecked: nothing is visible
C11_Witness ==
    /\ phase = "ok" /\ ~effectPending
    /\ \E i \in 1..Len(partners) : partners[i].displayCity = Null
    /\ SidebarUniqueCities(partners) # <<>>
    /\ filters.selectedCities = <<>>
    /\ filters.levels = InitialFilters.levels
    /\ searchQuery = <<>>
    /\ filteredPartners = <<>>

\* indices of the partners the effect keeps under the filters f
KeptUnder(f) ==
    { i \in 1..Len(partners) : applyFilters(<<partners[i]>>, searchQuery, f) # <<>> }

\* what the effect computes from the current state
VisibleNow == applyFilters(partners, searchQuery, filters)

C12_EmptySelection ==
    filters.levels = <<>> =>
        LET allTiers == [filters EXCEPT !.levels = InitialFilters.levels]
            others   == { i \in KeptBy(1) \cap KeptBy(3) \cap KeptBy(4) :
                            partners[i].level \notin TierNames }
        IN  /\ VisibleNow = PickIndices(KeptUnder(allTiers) \cup others, 1)
            /\ IsSubList(applyFilters(partners, searchQuery, allTiers), VisibleNow)
            /\ ~effectPending => filteredPartners = VisibleNow

C12_UncheckLast ==
    /\ \A x \in TierNames :
          (ToggleLevel(x) /\ filters.levels = <<x>>)
              => /\ filters'.levels = <<>>
                 /\ IsSubList(VisibleNow, VisibleNow')
    /\ \A i \in 1..Len(SidebarUniqueCities(partners)) :
          LET c == SidebarUniqueCities(partners)[i]
          IN  (ToggleCity(c) /\ filters.selectedCities = <<c>>)
                  => /\ filters'.selectedCities = <<>>
                     /\ VisibleNow' = <<>>

\* C12: the tier filter is skipped when no tier is selected: with levels empty
\* the visible subset is the one for Gold, Silver and Ready all selected plus the
\* partners of any other level that pass the other three filters; unchecking
\* the last selected tier never shrinks the visible subset, while unchecking the
\* last selected city empties it.
C12_TierFilterSkippedWhenEmpty == [](C12_EmptySelection) /\ [][C12_UncheckLast]_vars

\* all three tiers unchecked: a partner of another level is visible next to a
\* partner of one of the three tiers
C12_Witness ==
    /\ phase = "ok" /\ ~effectPending
    /\ filters.levels = <<>>
    /\ \E i \in 1..Len(filteredPartners) : filteredPartners[i].level \notin TierNames
    /\ \E i \in 1..Len(filteredPartners) : filteredPartners[i].level \in TierNames

----------------------------------------------------------------------------
(* Claims about the toggles *)

Members(list) == { list[i] : i \in 1..Len(list) }

NoDuplicates(list) == Cardinality(Members(list)) = Len(list)

\* the membership of exactly x differs between the lists old and new
Flipped(old, new, x) ==
    Members(new) = IF x \in Members(old) THEN Members(old) \ {x}
                   ELSE Members(old) \cup {x}

\* the filter fields other than key, searchQuery and partners stay as they are
OnlyFieldChanged(key) ==
    /\ DOMAIN filters' = DOMAIN filters
    /\ \A k \in DOMAIN filters \ {key} : filters'[k] = filters[k]
    /\ searchQuery' = searchQuery
    /\ partners' = partners

C13_ToggleStep ==
    /\ \A x \in TierNames :
          ToggleLevel(x) => /\ Flipped(filters.levels, filters'.levels, x)
                            /\ OnlyFieldChanged("levels")
    /\ \A i \in 1..Len(SidebarUniqueCities(partners)) :
          LET c == SidebarUniqueCities(partners)[i]
          IN  ToggleCity(c)
                => /\ Flipped(filters.selectedCities, filters'.selectedCities, c)
                   /\ OnlyFieldChanged("selectedCities")
    /\ \A key \in {"minReferences", "maxReferences"} :
          \A v \in MinStops(partners) \cup MaxStops(partners) :
              UpdateFilter(key, v) => /\ filters'[key] = v
                                      /\ OnlyFieldChanged(key)

C13_Selections ==
    /\ NoDuplicates(filters.levels)
    /\ NoDuplicates(filters.selectedCities)
    /\ Members(filters.levels) \subseteq TierNames
    /\ Members(filters.selectedCities)
          \subseteq { partners[i].displayCity : i \in 1..Len(partners) }
    /\ \A x \in TierNames :
          LET twice == toggled(toggled(filters.levels, x), x)
          IN  /\ Members(twice) = Members(filters.levels)
              /\ applyFilters(partners, searchQuery, [filters EXCEPT !.levels = twice])
                    = VisibleNow
    /\ \A i \in 1..Len(SidebarUniqueCities(partners)) :
          LET c     == SidebarUniqueCities(partners)[i]
              twice == toggled(toggled(filters.selectedCities, c), c)
          IN  /\ Members(twice) = Members(filters.selectedCities)
              /\ applyFilters(partners, searchQuery,
                              [filters EXCEPT !.selectedCities = twice])
                    = VisibleNow

\* C13: toggleLevel(x) and toggleCity(x) flip the membership of exactly x in
\* levels resp. selectedCities and leave the other filter fields, searchQuery
\* and partners alone; updateFilter(key, v) changes only filters[key]; levels
\* and selectedCities never hold a duplicate, levels stays within Gold, Silver
\* and Ready, selectedCities within the display cities of the dataset, and the
\* same toggle applied twice gives the same selected set and visible subset.
C13_TogglesFlipOneMember == [](C13_Selections) /\ [][C13_ToggleStep]_vars

\* a tier and a city were unchecked and checked again, so both lists are in a
\* new order, and a slider was moved; the visible subset is what it was
C13_Witness ==
    /\ phase = "ok" /\ ~effectPending
    /\ filters.levels # InitialFilters.levels
    /\ Members(filters.levels) = TierNames
    /\ filters.selectedCities # uniqueCitiesOf(partners)
    /\ Members(filters.selectedCities) = Members(uniqueCitiesOf(partners))
    /\ filters.minReferences > 0
    /\ Len(filteredPartners) > 0


====
